---- MODULE Spec2Model ----
(***************************************************************************)
(* Model of the ETL pipeline of src/main.py: per-source schema mapping and *)
(* special-case transforms (process_csv_file), the union of the per-source *)
(* data frames, the window-function deduplication and the JDBC write.      *)
(*                                                                         *)
(* Representation.                                                         *)
(*  - A string is a sequence of one-character strings, so that the regular *)
(*    expression replacements, trim, split and casts are computed on the   *)
(*    characters.                                                          *)
(*  - A nullable cell is a sequence of length 0 or 1: NULL is <<>>, and a  *)
(*    present value v is Some(v) = <<v>>.                                  *)
(*  - A data frame is [none, cols, rows]: `cols` the set of column names,  *)
(*    `rows` a sequence of functions from cols to cells.  Python's None is *)
(*    the frame with none = TRUE.                                          *)
(***************************************************************************)
EXTENDS Integers, Sequences, FiniteSets, TLC

\* ------------------------------------------------------------------ cells

NULL == <<>>

Some(v) == <<v>>

IsNull(x) == x = NULL

Val(x) == x[1]

\* ---------------------------------------------------------------- strings

Digits == {"0", "1", "2", "3", "4", "5", "6", "7", "8", "9"}

DigitVal(c) ==
    CASE c = "0" -> 0 [] c = "1" -> 1 [] c = "2" -> 2 [] c = "3" -> 3
      [] c = "4" -> 4 [] c = "5" -> 5 [] c = "6" -> 6 [] c = "7" -> 7
      [] c = "8" -> 8 [] c = "9" -> 9

IsDigit(c) == c \in Digits

\* whether character c matches the pattern: r'\D' (a non-digit) or r'"'
Matches(c, pattern) ==
    CASE pattern = "\\D" -> c \notin Digits
      [] pattern = "\"" -> c = "\""

\* Java String.replaceAll of the pattern's matches by the empty string
RECURSIVE RemoveMatches(_, _)
RemoveMatches(s, pattern) ==
    IF s = <<>> THEN <<>>
    ELSE (IF Matches(Head(s), pattern) THEN <<>> ELSE <<Head(s)>>)
         \o RemoveMatches(Tail(s), pattern)

\* regexp_replace(col, pattern, '') on a nullable cell: null stays null.
regexp_replace(x, pattern) ==
    IF IsNull(x) THEN NULL ELSE Some(RemoveMatches(Val(x), pattern))

RECURSIVE TrimLeft(_)
TrimLeft(s) ==
    IF s # <<>> /\ Head(s) = " " THEN TrimLeft(Tail(s)) ELSE s

RECURSIVE TrimRight(_)
TrimRight(s) ==
    IF s # <<>> /\ s[Len(s)] = " " THEN TrimRight(SubSeq(s, 1, Len(s) - 1)) ELSE s

\* trim(col): removes leading and trailing spaces; null stays null.
trim(x) == IF IsNull(x) THEN NULL ELSE Some(TrimRight(TrimLeft(Val(x))))

\* Java split on a one-character separator with limit -1 (Spark's split):
\* every separator is a boundary, empty tokens are kept.
RECURSIVE SplitOn(_, _, _)
SplitOn(s, sep, cur) ==
    IF s = <<>> THEN <<cur>>
    ELSE IF Head(s) = sep THEN <<cur>> \o SplitOn(Tail(s), sep, <<>>)
         ELSE SplitOn(Tail(s), sep, Append(cur, Head(s)))

\* split(col, ' '): an array cell, null for a null input.
split(x) == IF IsNull(x) THEN NULL ELSE Some(SplitOn(Val(x), " ", <<>>))

\* array.getItem(i), zero-based: null for a null array or an index past the end.
getItem(arr, i) ==
    IF IsNull(arr) THEN NULL
    ELSE IF i + 1 <= Len(Val(arr)) THEN Some(Val(arr)[i + 1]) ELSE NULL

\* concat_ws(sep, c1, ..., cn): the non-null cells joined by sep; never null.
RECURSIVE JoinNonNull(_, _)
JoinNonNull(sep, cells) ==
    IF cells = <<>> THEN <<>>
    ELSE IF IsNull(Head(cells)) THEN JoinNonNull(sep, Tail(cells))
         ELSE LET rest == JoinNonNull(sep, Tail(cells))
                  more == \E i \in 1..Len(Tail(cells)) : ~IsNull(Tail(cells)[i])
              IN  IF more THEN Val(Head(cells)) \o sep \o rest ELSE Val(Head(cells))

concat_ws(sep, cells) == Some(JoinNonNull(sep, cells))

CommaSpace == <<",", " ">>

\* ------------------------------------------------------------------ casts

IntegerMin == (-(2 ^ 30)) * 2

AllDigits(s) == \A i \in 1..Len(s) : IsDigit(s[i])

\* The digits accumulated as a non-positive number, as UTF8String.toInt does;
\* 1 reports that the value left the 32-bit range.
RECURSIVE AccumulateNegative(_, _)
AccumulateNegative(s, acc) ==
    IF s = <<>> THEN acc
    ELSE IF acc < (IntegerMin + DigitVal(Head(s)) + 9) \div 10
         THEN 1
         ELSE AccumulateNegative(Tail(s), acc * 10 - DigitVal(Head(s)))

\* col.cast(IntegerType()) of a string cell (non-ANSI): surrounding spaces are
\* trimmed, an optional sign, digits, an optional '.' followed by digits that
\* are ignored; anything else, or a value outside 32 bits, gives null.
CastInteger(x) ==
    IF IsNull(x) THEN NULL
    ELSE LET t      == TrimRight(TrimLeft(Val(x)))
             signed == t # <<>> /\ Head(t) \in {"-", "+"}
             neg    == t # <<>> /\ Head(t) = "-"
             body   == IF signed THEN Tail(t) ELSE t
             parts  == SplitOn(body, ".", <<>>)
             mag    == AccumulateNegative(parts[1], 0)
         IN  IF t = <<>> \/ body = <<>> THEN NULL
             ELSE IF Len(parts) > 2 THEN NULL
             ELSE IF ~AllDigits(parts[1]) THEN NULL
             ELSE IF Len(parts) = 2 /\ ~AllDigits(parts[2]) THEN NULL
             ELSE IF mag = 1 THEN NULL
             ELSE IF neg THEN Some(mag)
             ELSE IF mag = IntegerMin THEN NULL
             ELSE Some(-mag)

IsLeap(y) == (y % 4 = 0 /\ y % 100 # 0) \/ y % 400 = 0

DaysInMonth(y, m) ==
    IF m = 2 THEN (IF IsLeap(y) THEN 29 ELSE 28)
    ELSE IF m \in {4, 6, 9, 11} THEN 30 ELSE 31

\* to_date(col, 'M/d/yy'): month and day of one or two digits, a two-digit
\* year counted from 2000, the whole text consumed, the date valid; otherwise
\* null.  The date is the number yyyymmdd, which orders as the dates do.
to_date(x) ==
    IF IsNull(x) THEN NULL
    ELSE LET parts == SplitOn(Val(x), "/", <<>>)
             ok    == /\ Len(parts) = 3
                      /\ Len(parts[1]) \in {1, 2} /\ AllDigits(parts[1])
                      /\ Len(parts[2]) \in {1, 2} /\ AllDigits(parts[2])
                      /\ Len(parts[3]) = 2 /\ AllDigits(parts[3])
             m     == -AccumulateNegative(parts[1], 0)
             d     == -AccumulateNegative(parts[2], 0)
             y     == 2000 - AccumulateNegative(parts[3], 0)
         IN  IF ok /\ m \in 1..12 /\ d \in 1..DaysInMonth(y, m)
             THEN Some(y * 10000 + m * 100 + d)
             ELSE NULL

\* ------------------------------------------------------------ data frames

Range(s) == {s[i] : i \in 1..Len(s)}

NoneDF == [none |-> TRUE, cols |-> {}, rows |-> <<>>]

IsNone(df) == df.none

Frame(cols, rows) == [none |-> FALSE, cols |-> cols, rows |-> rows]

\* df.withColumn(name, expr): adds or replaces the column; values[i] is the
\* value of expr in row i.
withColumn(df, name, values) ==
    Frame(df.cols \cup {name},
          [i \in 1..Len(df.rows) |->
              [c \in df.cols \cup {name} |->
                  IF c = name THEN values[i] ELSE df.rows[i][c]]])

\* df.withColumnRenamed(old, new); a no-op when old is not a column.
withColumnRenamed(df, old, new) ==
    IF old \notin df.cols THEN df
    ELSE Frame((df.cols \ {old}) \cup {new},
               [i \in 1..Len(df.rows) |->
                   [c \in (df.cols \ {old}) \cup {new} |->
                       IF c = new THEN df.rows[i][old] ELSE df.rows[i][c]]])

\* df.drop(*names): names that are not columns are ignored.
drop(df, names) ==
    Frame(df.cols \ names,
          [i \in 1..Len(df.rows) |-> [c \in df.cols \ names |-> df.rows[i][c]]])
\* ----------------------------------------------------------- the pipeline

VARIABLES
    column_mappings,  \* the loaded column_map.json: source name -> mapping
    files,            \* what spark.read.csv returns for each source's file
    pc,               \* position of main
    idx,              \* process_all_files: number of sources already processed
    dfs,              \* process_all_files: the list of per-source frames
    df_all,           \* main: the combined frame
    sink,             \* the rows of the PostgreSQL table child_care_info
    writes,           \* number of df.write.jdbc calls made
    error,            \* the exception that left main, "none" if none did
    stopped,          \* spark.stop() was called
    calls             \* the calls of main that have returned, in order

vars == <<column_mappings, files, pc, idx, dfs, df_all, sink, writes, error, stopped,
          calls>>

target_columns == <<
    "accepts_financial_aid", "ages_served", "capacity",
    "certificate_expiration_date", "city", "address1", "address2", "company",
    "phone", "phone2", "county", "curriculum_type", "email", "first_name",
    "language", "last_name", "license_status", "license_issued",
    "license_number", "license_renewed", "license_type", "licensee_name",
    "max_age", "min_age", "operator", "provider_id", "schedule", "state",
    "title", "website_address", "zip", "facility_type", "source",
    "etl_load_time", "version_number", "source_file_name" >>

\* strip out non-numbers
clean_phone(df, phone_col) ==
    LET Expr(r) == regexp_replace(r[phone_col], "\\D")
    IN  withColumn(df, phone_col, [n \in 1..Len(df.rows) |-> Expr(df.rows[n])])

\* rename columns with mapping: mapping.items() in order
RECURSIVE RenameColumns(_, _)
RenameColumns(df, items) ==
    IF items = <<>> THEN df
    ELSE RenameColumns(withColumnRenamed(df, Head(items)[1], Head(items)[2]),
                       Tail(items))

\* put null in missing columns: every name of `names` that is not a column
\* becomes a column of nulls (lit(None).cast(data_type)); the loop's result
PadMissing(df, names) ==
    Frame(df.cols \cup Range(names),
          [i \in 1..Len(df.rows) |->
              [c \in df.cols \cup Range(names) |->
                  IF c \in df.cols THEN df.rows[i][c] ELSE NULL]])

\* os.path.basename of a path given as its components
basename(path) == path[Len(path)]

\* the value of current_timestamp() in the query that builds the frame
LoadTime == Some("current_timestamp")

transform_df(df, mapping, source_name, source_file_name) ==
    LET renamed == RenameColumns(df, mapping)
        padded  == PadMissing(renamed, target_columns)
        Source(r)   == Some(source_name)
        Time(r)     == LoadTime
        Version(r)  == Some(<<"1", ".", "0">>)
        FileName(r) == Some(basename(source_file_name))
        d1 == withColumn(padded, "source",
                         [n \in 1..Len(padded.rows) |-> Source(padded.rows[n])])
        d2 == withColumn(d1, "etl_load_time",
                         [n \in 1..Len(d1.rows) |-> Time(d1.rows[n])])
        d3 == withColumn(d2, "version_number",
                         [n \in 1..Len(d2.rows) |-> Version(d2.rows[n])])
    IN  withColumn(d3, "source_file_name",
                   [n \in 1..Len(d3.rows) |-> FileName(d3.rows[n])])

\* the columns of age_columns that the frame has, in list order
PresentColumns(df, age_columns) ==
    LET Present(c) == c \in df.cols IN SelectSeq(age_columns, Present)

\* special case for 1st file
combine_age_columns(df, age_columns) ==
    LET age_cols == PresentColumns(df, age_columns)
        Expr(r)  == concat_ws(CommaSpace, [i \in 1..Len(age_cols) |-> r[age_cols[i]]])
    IN  drop(withColumn(df, "ages_served",
            [n \in 1..Len(df.rows) |-> Expr(df.rows[n])]), Range(age_columns))

\* AgeLabel with a fault: any non-null flag counts, not only 'Y'
AgeLabel_anyValue(r, age_col) ==
    IF ~IsNull(r[age_col]) THEN Some(age_col) ELSE NULL

\* the label a flag column contributes: when(col(age_col) == 'Y', lit(age_col))
AgeLabel(r, age_col) ==
    IF ~IsNull(r[age_col]) /\ Val(r[age_col]) = <<"Y">> THEN Some(age_col) ELSE NULL

\* special case for 3rd file.  A label is kept as one token: concat_ws only
\* concatenates, so the characters of a column name are not looked at.
combine_age_columns_source3(df, age_columns) ==
    LET present   == PresentColumns(df, age_columns)
        Array(r)  == [i \in 1..Len(present) |->
                         LET l == AgeLabel(r, present[i])
                         IN  IF IsNull(l) THEN NULL ELSE Some(<<Val(l)>>)]
        Expr(r)   == concat_ws(CommaSpace, Array(r))
    IN  drop(withColumn(df, "ages_served",
            [n \in 1..Len(df.rows) |-> Expr(df.rows[n])]), Range(age_columns) \cup {"ages_array"})
\* add csv files if needed: the dictionary's items, in insertion order
get_csv_files == <<
    <<"source1", <<"csv_files", "Technical Exercise Data - source1.csv">> >>,
    <<"source2", <<"csv_files", "Technical Exercise Data - source2.csv">> >>,
    <<"source3", <<"csv_files", "Technical Exercise Data - source3.csv">> >> >>

Sources == {get_csv_files[i][1] : i \in 1..Len(get_csv_files)}

\* license name handling
SplitLicenseeName(df) ==
    IF "licensee_name" \notin df.cols THEN df
    ELSE LET Trimmed(r) == trim(r["licensee_name"])
             d1         == withColumn(df, "licensee_name",
                     [n \in 1..Len(df.rows) |-> Trimmed(df.rows[n])])
             Parts(r)   == split(r["licensee_name"])
             d2         == withColumn(d1, "name_parts",
                     [n \in 1..Len(d1.rows) |-> Parts(d1.rows[n])])
             First(r)   == getItem(r["name_parts"], 0)
             d3         == withColumn(d2, "first_name",
                     [n \in 1..Len(d2.rows) |-> First(d2.rows[n])])
             Last(r)    == IF ~IsNull(getItem(r["name_parts"], 1))
                           THEN getItem(r["name_parts"], 1)
                           ELSE Some(<<>>)
             d4         == withColumn(d3, "last_name",
                     [n \in 1..Len(d3.rows) |-> Last(d3.rows[n])])
         IN  drop(d4, {"name_parts"})

\* convert date columns to proper date format
RECURSIVE ConvertDates(_, _)
ConvertDates(df, date_columns) ==
    IF date_columns = <<>> THEN df
    ELSE LET c       == Head(date_columns)
             Expr(r) == to_date(r[c])
         IN  ConvertDates(IF c \in df.cols THEN withColumn(df, c,
                 [n \in 1..Len(df.rows) |-> Expr(df.rows[n])]) ELSE df,
                          Tail(date_columns))

\* cast numeric fields: capacity
CastCapacity(df) ==
    LET Expr(r) == CastInteger(r["capacity"])
    IN  IF "capacity" \in df.cols THEN withColumn(df, "capacity",
            [n \in 1..Len(df.rows) |-> Expr(df.rows[n])]) ELSE df

\* cast numeric fields: license_number
CastLicenseNumber(df) ==
    LET Expr(r) == CastInteger(regexp_replace(r["license_number"], "\\D"))
    IN  IF "license_number" \in df.cols THEN withColumn(df, "license_number",
            [n \in 1..Len(df.rows) |-> Expr(df.rows[n])])
        ELSE df

\* handle age columns
HandleAgeColumns(df, source_name) ==
    IF source_name = "source2"
    THEN combine_age_columns(df, <<"Ages Accepted 1", "AA2", "AA3", "AA4">>)
    ELSE IF source_name = "source3"
    THEN combine_age_columns_source3(df, <<"Infant", "Toddler", "Preschool", "School">>)
    ELSE df

\* the special case of source3 ahead of the mapping
CleanOperationName(df, source_name) ==
    LET Expr(r) == regexp_replace(r["Operation Name"], "\"")
    IN  IF source_name = "source3" THEN withColumn(df, "Operation Name",
            [n \in 1..Len(df.rows) |-> Expr(df.rows[n])]) ELSE df

\* main processor.  `raw` is the frame spark.read.csv gives for file_path and
\* `mappings` the loaded column_mappings.
process_csv_file(raw, mappings, file_path, source_name) ==
    IF source_name \notin DOMAIN mappings THEN NoneDF
    ELSE LET d1 == CleanOperationName(raw, source_name)
             d2 == transform_df(d1, mappings[source_name], source_name, file_path)
             d3 == clean_phone(d2, "phone")
             d4 == SplitLicenseeName(d3)
             d5 == ConvertDates(d4, <<"license_issued", "certificate_expiration_date">>)
             d6 == CastLicenseNumber(CastCapacity(d5))
         IN  HandleAgeColumns(d6, source_name)

\* df.unionByName(other, allowMissingColumns=True)
unionByName(a, b) ==
    LET cols   == a.cols \cup b.cols
        Pad(r) == [c \in cols |-> IF c \in DOMAIN r THEN r[c] ELSE NULL]
    IN  Frame(cols, [i \in 1..(Len(a.rows) + Len(b.rows)) |->
                        IF i <= Len(a.rows) THEN Pad(a.rows[i])
                        ELSE Pad(b.rows[i - Len(a.rows)])])

\* put data frames together: [raised, df].  Calling unionByName on None, or
\* with None as its argument, raises AttributeError.
RECURSIVE UnionFold(_, _)
UnionFold(acc, rest) ==
    IF rest = <<>> THEN [raised |-> FALSE, df |-> acc]
    ELSE IF IsNone(acc) \/ IsNone(Head(rest)) THEN [raised |-> TRUE, df |-> NoneDF]
    ELSE UnionFold(unionByName(acc, Head(rest)), Tail(rest))

union_all_dataframes(frames) == UnionFold(Head(frames), Tail(frames))

\* SamePartition with a fault: the window partitioned by address1 alone
SamePartition_addressOnly(r1, r2) == r1["address1"] = r2["address1"]

\* Window.partitionBy('phone', 'address1'): rows of one partition; grouping
\* treats null as a value equal to itself.
SamePartition(r1, r2) ==
    r1["phone"] = r2["phone"] /\ r1["address1"] = r2["address1"]

\* SortsBefore with a fault: license_issued ascending (nulls first)
SortsBefore_ascending(r1, r2) ==
    /\ ~IsNull(r2["license_issued"])
    /\ \/ IsNull(r1["license_issued"])
       \/ Val(r1["license_issued"]) < Val(r2["license_issued"])

\* orderBy(col('license_issued').desc()): r1 sorts strictly before r2; with
\* desc() the nulls sort last.
SortsBefore(r1, r2) ==
    /\ ~IsNull(r1["license_issued"])
    /\ \/ IsNull(r2["license_issued"])
       \/ Val(r1["license_issued"]) > Val(r2["license_issued"])

\* the rows no row of their partition sorts before: those that can get row_number 1
TopRanked(rows) ==
    {i \in 1..Len(rows) :
        \A j \in 1..Len(rows) :
            SamePartition(rows[i], rows[j]) => ~SortsBefore(rows[j], rows[i])}

\* The possible sets of rows with row_num = 1.  row_number() over rows that
\* compare equal under the window's ordering is not determined by Spark: any
\* one of the tied top rows of a partition can be numbered 1.
RowNumberOne(rows) ==
    LET top    == TopRanked(rows)
        Alone(i) == \A j \in top : SamePartition(rows[i], rows[j]) => j = i
        forced == {i \in top : Alone(i)}
        tied   == top \ forced
    IN  {forced \cup k : k \in
            {k \in SUBSET tied :
                \A i \in tied :
                    Cardinality({j \in k : SamePartition(rows[i], rows[j])}) = 1}}

\* the rows with the indices of `keep`, in their order in the frame
RECURSIVE FilterRows(_, _, _)
FilterRows(rows, keep, i) ==
    IF i > Len(rows) THEN <<>>
    ELSE (IF i \in keep THEN <<rows[i]>> ELSE <<>>) \o FilterRows(rows, keep, i + 1)

\* window function to remove duplicates, for one outcome of row_number
deduplicate_dataframe(df, keep) == Frame(df.cols, FilterRows(df.rows, keep, 1))

\* select_target_columns with a fault: every column of the frame kept
select_target_columns_keepAll(df, columns) == df

\* select columns needed
select_target_columns(df, columns) ==
    Frame(Range(columns),
          [i \in 1..Len(df.rows) |-> [c \in Range(columns) |-> df.rows[i][c]]])
\* ------------------------------------------------------------ the inputs

\* characters of a text given as a sequence of one-character strings
Phone51Dashed == <<"5", "-", "1">>
Phone51Plain  == <<"5", "1">>
Date2020      == <<"1", "/", "1", "/", "2", "0">>
Date2021      == <<"1", "/", "1", "/", "2", "1">>
JaneDoe       == <<"J", "a", "n", "e", " ", "D", "o", "e">>

\* the columns of a source's file: the common ones, the age columns the code
\* names for source2 and source3, and a column no mapping mentions
RawColumns(s) ==
    {"Phone", "Address", "Name", "First Name", "Last Name", "License Issued",
     "Capacity", "License Number", "Provider Id", "Notes"}
    \cup (IF s = "source2" THEN {"Ages Accepted 1", "AA2", "AA3", "AA4"} ELSE {})
    \cup (IF s = "source3"
          THEN {"Operation Name", "Infant", "Toddler", "Preschool", "School"}
          ELSE {})

\* a column_map.json entry: (raw column, canonical field) pairs in file order;
\* "Zip Code" is a mapped column that the files do not have
FieldMapping(s) ==
    << <<"Phone", "phone">>, <<"Address", "address1">>, <<"Name", "licensee_name">>,
       <<"First Name", "first_name">>, <<"Last Name", "last_name">>,
       <<"License Issued", "license_issued">>, <<"Capacity", "capacity">>,
       <<"License Number", "license_number">>, <<"Provider Id", "provider_id">>,
       <<"Zip Code", "zip">> >>
    \o (IF s = "source3" THEN << <<"Operation Name", "company">> >> ELSE <<>>)

MappingFor(mapped) == [s \in mapped |-> FieldMapping(s)]

\* the values of one raw row that the inputs vary
DefaultFields ==
    [phone |-> Some(Phone51Dashed), addr |-> Some(<<"A">>), date |-> Some(Date2020),
     name |-> Some(JaneDoe), first |-> NULL, last |-> NULL,
     cap |-> Some(<<"1", "2">>), lic |-> Some(<<"7">>),
     ages |-> <<Some(<<"Y">>), Some(<<"N">>), NULL, Some(<<"Y">>)>>]

AgeColumnIndex(c) ==
    CASE c \in {"Ages Accepted 1", "Infant"} -> 1
      [] c \in {"AA2", "Toddler"} -> 2
      [] c \in {"AA3", "Preschool"} -> 3
      [] c \in {"AA4", "School"} -> 4

\* row i of source s's file
RawRow(s, i, v) ==
    [c \in RawColumns(s) |->
        CASE c = "Phone" -> v.phone
          [] c = "Address" -> v.addr
          [] c = "Name" -> v.name
          [] c = "First Name" -> v.first
          [] c = "Last Name" -> v.last
          [] c = "License Issued" -> v.date
          [] c = "Capacity" -> v.cap
          [] c = "License Number" -> v.lic
          [] c = "Provider Id" -> Some(<<s, i>>)
          [] c = "Notes" -> Some(<<"n">>)
          [] c = "Operation Name" -> Some(<<"\"", "K", "\"">>)
          [] OTHER -> v.ages[AgeColumnIndex(c)]]

RawFile(s, fields) ==
    Frame(RawColumns(s), [i \in 1..Len(fields) |-> RawRow(s, i, fields[i])])

MaxRows == 2

\* identity and date values of the deduplication inputs
DedupFields ==
    {[DefaultFields EXCEPT !.phone = p, !.addr = Some(<<"A">>), !.date = d] :
        p \in {NULL, Some(Phone51Dashed), Some(Phone51Plain)},
        d \in {NULL, Some(Date2020), Some(Date2021)}}
    \cup {[DefaultFields EXCEPT !.addr = NULL]}

SeqsUpTo(S, n) == UNION {[1..k -> S] : k \in 1..n}

StartOfMain ==
    /\ pc = "process_all_files"
    /\ idx = 0
    /\ dfs = <<>>
    /\ df_all = NoneDF
    /\ sink = [written |-> FALSE, rows |-> <<>>]
    /\ writes = 0
    /\ error = "none"
    /\ stopped = FALSE
    /\ calls = <<>>

Init ==
    /\ StartOfMain
    /\ \/ /\ column_mappings = MappingFor(Sources)
          /\ \E r1 \in SeqsUpTo(DedupFields, MaxRows), r2 \in DedupFields :
                files = [s \in Sources |->
                            RawFile(s, CASE s = "source1" -> r1
                                         [] s = "source2" -> <<r2>>
                                         [] OTHER -> <<DefaultFields>>)]
       \/ /\ column_mappings \in {MappingFor(m) : m \in (SUBSET Sources) \ {Sources}}
          /\ \E r1 \in DedupFields :
                files = [s \in Sources |->
                            RawFile(s, IF s = "source1" THEN <<r1>> ELSE <<DefaultFields>>)]

\* ------------------------------------------------------------ the actions

\* process every csv file: one iteration of the loop of process_all_files
ProcessCsvFile ==
    /\ pc = "process_all_files"
    /\ idx < Len(get_csv_files)
    /\ LET source_name == get_csv_files[idx + 1][1]
           file_path   == get_csv_files[idx + 1][2]
       IN  dfs' = Append(dfs, process_csv_file(files[source_name], column_mappings,
                                                file_path, source_name))
    /\ idx' = idx + 1
    /\ pc' = IF idx + 1 = Len(get_csv_files) THEN "union_all_dataframes" ELSE pc
    /\ calls' = IF idx + 1 = Len(get_csv_files)
                THEN Append(calls, "process_all_files") ELSE calls
    /\ UNCHANGED <<column_mappings, files, df_all, sink, writes, error, stopped>>

UnionAllDataframes ==
    /\ pc = "union_all_dataframes"
    /\ \/ /\ ~union_all_dataframes(dfs).raised
          /\ df_all' = union_all_dataframes(dfs).df
          /\ pc' = "deduplicate_dataframe"
          /\ calls' = Append(calls, "union_all_dataframes")
          /\ UNCHANGED error
       \/ /\ union_all_dataframes(dfs).raised
          /\ error' = "AttributeError"
          /\ pc' = "raised"
          /\ UNCHANGED <<df_all, calls>>
    /\ UNCHANGED <<column_mappings, files, idx, dfs, sink, writes, stopped>>

DeduplicateDataframe ==
    /\ pc = "deduplicate_dataframe"
    /\ \E keep \in RowNumberOne(df_all.rows) :
          df_all' = deduplicate_dataframe(df_all, keep)
    /\ pc' = "select_target_columns"
    /\ calls' = Append(calls, "deduplicate_dataframe")
    /\ UNCHANGED <<column_mappings, files, idx, dfs, sink, writes, error, stopped>>

SelectTargetColumns ==
    /\ pc = "select_target_columns"
    /\ df_all' = select_target_columns(df_all, target_columns)
    /\ pc' = "write_to_postgres"
    /\ calls' = Append(calls, "select_target_columns")
    /\ UNCHANGED <<column_mappings, files, idx, dfs, sink, writes, error, stopped>>

\* WriteToPostgres with a fault: the except clause without its raise
WriteToPostgres_swallows ==
    /\ pc = "write_to_postgres"
    /\ ~IsNone(df_all)
    /\ writes' = writes + 1
    /\ \/ /\ sink' = [written |-> TRUE, rows |-> df_all.rows]
          /\ pc' = "spark_stop"
          /\ calls' = Append(calls, "write_to_postgres")
          /\ UNCHANGED error
       \/ /\ pc' = "spark_stop"
          /\ calls' = Append(calls, "write_to_postgres")
          /\ UNCHANGED <<sink, error>>
    /\ UNCHANGED <<column_mappings, files, idx, dfs, df_all, stopped>>

\* write to the pgdb: df.write.jdbc succeeds, or fails and the except clause
\* re-raises
WriteToPostgres ==
    /\ pc = "write_to_postgres"
    /\ ~IsNone(df_all)
    /\ writes' = writes + 1
    /\ \/ /\ sink' = [written |-> TRUE, rows |-> df_all.rows]
          /\ pc' = "spark_stop"
          /\ calls' = Append(calls, "write_to_postgres")
          /\ UNCHANGED error
       \/ /\ error' = "SinkError"
          /\ pc' = "raised"
          /\ UNCHANGED <<sink, calls>>
    /\ UNCHANGED <<column_mappings, files, idx, dfs, df_all, stopped>>

SparkStop ==
    /\ pc = "spark_stop"
    /\ stopped' = TRUE
    /\ pc' = "done"
    /\ calls' = Append(calls, "spark.stop")
    /\ UNCHANGED <<column_mappings, files, idx, dfs, df_all, sink, writes, error>>

Next ==
    \/ ProcessCsvFile
    \/ UnionAllDataframes
    \/ DeduplicateDataframe
    \/ SelectTargetColumns
    \/ WriteToPostgres
    \/ SparkStop

Spec == Init /\ [][Next]_vars

\* ----------------------------------------- inputs of the per-record hooks

Chars12      == <<"1", "2">>
Chars12Kids  == <<"1", "2", " ", "k", "i", "d", "s">>
CharsLic007  == <<"L", "I", "C", "-", "0", "0", "7">>
CharsMinus5  == <<"-", "5">>
Chars1Dot5   == <<"1", ".", "5">>
CharsAbc     == <<"a", "b", "c">>
CharsIntMax  == <<"2", "1", "4", "7", "4", "8", "3", "6", "4", "7">>
CharsTooBig  == <<"2", "1", "4", "7", "4", "8", "3", "6", "4", "8">>
Madonna      == <<"M", "a", "d", "o", "n", "n", "a">>
AnnLeeRoy    == <<" ", "A", "n", "n", " ", "L", "e", "e", " ", "R", "o", "y", " ">>

NumericSamples ==
    {NULL, Some(<<>>), Some(Chars12), Some(Chars12Kids), Some(CharsLic007),
     Some(CharsMinus5), Some(Chars1Dot5), Some(CharsAbc), Some(CharsIntMax),
     Some(CharsTooBig)}

NameSamples == {NULL, Some(<<>>), Some(JaneDoe), Some(Madonna), Some(AnnLeeRoy)}

FlagSamples == {NULL, Some(<<"Y">>), Some(<<"N">>)}

\* one raw row per source; the inputs vary the name columns, or the numeric
\* columns, or the age columns
FieldInputs ==
    {[DefaultFields EXCEPT !.name = n, !.first = f, !.last = l] :
        n \in NameSamples, f \in {NULL, Some(<<"J", "o">>)}, l \in {NULL, Some(<<"P">>)}}
    \cup {[DefaultFields EXCEPT !.cap = c, !.lic = n] :
        c \in NumericSamples, n \in NumericSamples}
    \cup {[DefaultFields EXCEPT !.ages = a] : a \in [1..4 -> FlagSamples]}

InitFields ==
    /\ StartOfMain
    /\ \/ /\ column_mappings = MappingFor(Sources)
          /\ \E v \in FieldInputs :
                files = [s \in Sources |-> RawFile(s, <<v>>)]
       \/ /\ column_mappings \in {MappingFor(m) : m \in (SUBSET Sources) \ {Sources}}
          /\ files = [s \in Sources |-> RawFile(s, <<DefaultFields>>)]

SpecFields == InitFields /\ [][Next]_vars

\* ------------------------------------------------ the end-to-end scenario

DigitChar(n) == CHOOSE c \in Digits : DigitVal(c) = n

Date2022 == <<"1", "/", "1", "/", "2", "2">>

\* five rows per source, every identity different: row i of the k-th source
\* has the phone "k-i"
E2ERows == 1..5

E2EPhone(k, i) == Some(<<DigitChar(k), "-", DigitChar(i)>>)

\* the rows of the k-th source, where row j of the second source has the phone
\* of row i of the first and the two have the dates d1 and d2
E2EFields(k, i, j, d1, d2) ==
    [n \in E2ERows |->
        [DefaultFields EXCEPT
            !.phone = IF k = 2 /\ n = j THEN E2EPhone(1, i) ELSE E2EPhone(k, n),
            !.date  = IF k = 1 /\ n = i THEN Some(d1)
                      ELSE IF k = 2 /\ n = j THEN Some(d2)
                      ELSE Some(Date2020)]]

InitE2E ==
    /\ StartOfMain
    /\ \E i \in E2ERows, j \in E2ERows, d1 \in {Date2020, Date2021, Date2022},
          d2 \in {Date2020, Date2021, Date2022} :
          /\ d1 # d2
          /\ files = [s \in Sources |->
                        RawFile(s, E2EFields(CHOOSE k \in 1..3 : get_csv_files[k][1] = s,
                                             i, j, d1, d2))]
    /\ column_mappings \in {MappingFor(m) : m \in {Sources, Sources \ {"source3"}}}

SpecE2E == InitE2E /\ [][Next]_vars

\* ------------------------------------------------------------- the claims

\* the rows of the frames, one after the other: the combined input, in order
RECURSIVE ConcatRows(_)
ConcatRows(frames) ==
    IF frames = <<>> THEN <<>> ELSE Head(frames).rows \o ConcatRows(Tail(frames))

CombinedRecords == ConcatRows(dfs)

Returned(call) == call \in Range(calls)

\* a null date ranks below every date
DateRank(cell) == IF IsNull(cell) THEN -1 ELSE Val(cell)

SameIdentity(r1, r2) ==
    r1["phone"] = r2["phone"] /\ r1["address1"] = r2["address1"]

HasIdentity(r) == ~IsNull(r["phone"]) /\ ~IsNull(r["address1"])

\* the same record: the source and the provider id tell the input rows apart
SameRecord(r1, r2) ==
    r1["source"] = r2["source"] /\ r1["provider_id"] = r2["provider_id"]

GroupOf(r) ==
    {k \in 1..Len(CombinedRecords) : SameIdentity(CombinedRecords[k], r)}

OutputOf(r) == {j \in 1..Len(df_all.rows) : SameIdentity(df_all.rows[j], r)}

\* C1: after deduplicate_dataframe, every group of combined records with the
\* same non-null (phone, address1) has exactly one record in the output, that
\* record is one of the group, and its license_issued is the greatest of the
\* group, a null date ranking below every date.
C1_GreatestSurvives ==
    Returned("deduplicate_dataframe") =>
        \A i \in 1..Len(CombinedRecords) :
            LET r == CombinedRecords[i]
            IN  HasIdentity(r) =>
                    /\ Cardinality(OutputOf(r)) = 1
                    /\ \A j \in OutputOf(r) :
                          /\ \E k \in GroupOf(r) :
                                SameRecord(CombinedRecords[k], df_all.rows[j])
                          /\ \A k \in GroupOf(r) :
                                DateRank(df_all.rows[j]["license_issued"])
                                    >= DateRank(CombinedRecords[k]["license_issued"])

C1_Witness ==
    /\ Returned("deduplicate_dataframe")
    /\ \E i, k \in 1..Len(CombinedRecords) :
          /\ HasIdentity(CombinedRecords[i])
          /\ SameIdentity(CombinedRecords[i], CombinedRecords[k])
          /\ ~IsNull(CombinedRecords[k]["license_issued"])
          /\ DateRank(CombinedRecords[i]["license_issued"])
                > DateRank(CombinedRecords[k]["license_issued"])
          /\ \E n \in 1..Len(CombinedRecords) :
                /\ SameIdentity(CombinedRecords[i], CombinedRecords[n])
                /\ IsNull(CombinedRecords[n]["license_issued"])

\* C2: every record whose phone or address1 is null is in the output of
\* deduplicate_dataframe.
C2_NullIdentityPassesThrough ==
    Returned("deduplicate_dataframe") =>
        \A i \in 1..Len(CombinedRecords) :
            ~HasIdentity(CombinedRecords[i]) =>
                \E j \in 1..Len(df_all.rows) :
                    SameRecord(CombinedRecords[i], df_all.rows[j])

\* C3: when some source has no mapping the run continues: once the loop of
\* process_all_files is over, union_all_dataframes returns and no exception
\* leaves main before the write.
C3_UnmappedSourceSkipped ==
    (Sources \ DOMAIN column_mappings # {} /\ pc \notin {"process_all_files",
                                                          "union_all_dataframes"}) =>
        /\ error # "AttributeError"
        /\ Returned("union_all_dataframes")

MappedFrames == {k \in 1..Len(dfs) : ~IsNone(dfs[k])}

FieldsOf(r) == DOMAIN r

\* the frame transform_df returns for a mapped source
TransformOutput(k) ==
    LET source_name == get_csv_files[k][1]
    IN  transform_df(CleanOperationName(files[source_name], source_name),
                     column_mappings[source_name], source_name, get_csv_files[k][2])

\* C4 as stated: every record of a mapped source, and every record handed to
\* the sink, has exactly the 35 canonical fields and no raw-only column.
C4_ExactlyThirtyFive ==
    /\ \A k \in MappedFrames :
          LET mapped == TransformOutput(k)
          IN  \A i \in 1..Len(mapped.rows) :
                  /\ Cardinality(FieldsOf(mapped.rows[i])) = 35
                  /\ FieldsOf(mapped.rows[i]) = Range(target_columns)
    /\ Returned("select_target_columns") =>
          \A i \in 1..Len(df_all.rows) : Cardinality(FieldsOf(df_all.rows[i])) = 35

\* C4, amended: target_columns has 36 names; every record transform_df
\* produces for a mapped source has every one of them (a raw column that no
\* mapping names may be there as well), and every record handed to the sink
\* has exactly those 36 fields.
C4_TargetColumnsAtSink ==
    /\ Len(target_columns) = 36
    /\ Cardinality(Range(target_columns)) = 36
    /\ \A k \in MappedFrames :
          LET mapped == TransformOutput(k)
          IN  /\ Len(mapped.rows) = Len(files[get_csv_files[k][1]].rows)
              /\ \A i \in 1..Len(mapped.rows) :
                    /\ Range(target_columns) \subseteq FieldsOf(mapped.rows[i])
                    /\ Range(target_columns) \subseteq FieldsOf(dfs[k].rows[i])
    /\ Returned("select_target_columns") =>
          \A i \in 1..Len(df_all.rows) :
              /\ FieldsOf(df_all.rows[i]) = Range(target_columns)
              /\ Cardinality(FieldsOf(df_all.rows[i])) = 36
    /\ sink.written => sink.rows = df_all.rows

C4_Witness ==
    /\ sink.written
    /\ Len(sink.rows) > 0
    /\ \A i \in 1..Len(sink.rows) : Cardinality(FieldsOf(sink.rows[i])) = 36
    /\ \E k \in MappedFrames :
          LET mapped == TransformOutput(k)
          IN  \E i \in 1..Len(mapped.rows) :
                  /\ "Notes" \in FieldsOf(mapped.rows[i])
                  /\ IsNull(mapped.rows[i]["city"])

\* the first of the top-ranked records of its identity group
FirstTopRanked(i) ==
    /\ \A k \in GroupOf(CombinedRecords[i]) :
          DateRank(CombinedRecords[i]["license_issued"])
              >= DateRank(CombinedRecords[k]["license_issued"])
    /\ \A k \in GroupOf(CombinedRecords[i]) :
          k < i => DateRank(CombinedRecords[k]["license_issued"])
                      < DateRank(CombinedRecords[i]["license_issued"])

\* C5: on a tie in license_issued the record that comes first in the combined
\* input is the one retained.
C5_FirstOccurrenceWins ==
    Returned("deduplicate_dataframe") =>
        \A i \in 1..Len(CombinedRecords) :
            (HasIdentity(CombinedRecords[i]) /\ FirstTopRanked(i)) =>
                \E j \in 1..Len(df_all.rows) :
                    SameRecord(CombinedRecords[i], df_all.rows[j])

\* C6: the write is attempted at most once, only after process_all_files,
\* union_all_dataframes, deduplicate_dataframe and select_target_columns have
\* returned in that order, and a failed write leaves main as an exception:
\* nothing is written, spark.stop() is not reached.
C6_SinkFailureFatal ==
    /\ writes <= 1
    /\ writes = 1 =>
          /\ Len(calls) >= 4
          /\ SubSeq(calls, 1, 4) = <<"process_all_files", "union_all_dataframes",
                                     "deduplicate_dataframe", "select_target_columns">>
    /\ (writes = 1 /\ ~sink.written) <=> error = "SinkError"
    /\ error = "SinkError" =>
          /\ pc = "raised"
          /\ ~stopped
          /\ ~Returned("write_to_postgres")

C6_Witness == error = "SinkError" /\ writes = 1 /\ pc = "raised"

\* C7: three mapped sources of five records each, all identities different
\* but for one record of source1 and one of source2 that share phone and
\* address1 and differ in license_issued: the batch handed to the sink has 14
\* records, and the one with the shared identity has the later date.
C7_EndToEndFourteen ==
    (Returned("select_target_columns") /\ DOMAIN column_mappings = Sources) =>
        /\ Len(df_all.rows) = 14
        /\ sink.written => Len(sink.rows) = 14
        /\ \A a, b \in 1..Len(CombinedRecords) :
              (a # b /\ SameIdentity(CombinedRecords[a], CombinedRecords[b])) =>
                  /\ Cardinality(OutputOf(CombinedRecords[a])) = 1
                  /\ \A j \in OutputOf(CombinedRecords[a]) :
                        /\ DateRank(df_all.rows[j]["license_issued"])
                              >= DateRank(CombinedRecords[a]["license_issued"])
                        /\ DateRank(df_all.rows[j]["license_issued"])
                              >= DateRank(CombinedRecords[b]["license_issued"])

C7_Witness ==
    /\ sink.written
    /\ DOMAIN column_mappings = Sources
    /\ Len(CombinedRecords) = 15
    /\ Len(sink.rows) = 14
    /\ \E a, b \in 1..Len(CombinedRecords) :
          /\ CombinedRecords[a]["source"] = Some("source1")
          /\ CombinedRecords[b]["source"] = Some("source2")
          /\ SameIdentity(CombinedRecords[a], CombinedRecords[b])
          /\ DateRank(CombinedRecords[a]["license_issued"])
                < DateRank(CombinedRecords[b]["license_issued"])
          /\ \E j \in 1..Len(sink.rows) : SameRecord(sink.rows[j], CombinedRecords[b])

\* the raw row a processed row comes from: row i of the file of the k-th source
RawOf(k, i) == files[get_csv_files[k][1]].rows[i]

\* C8: a record whose licensee_name is null keeps the first_name and the
\* last_name that schema mapping gave it (the values of the raw columns
\* mapped to them).
C8_NullNameSkipsSplit ==
    \A k \in MappedFrames : \A i \in 1..Len(dfs[k].rows) :
        IsNull(RawOf(k, i)["Name"]) =>
            /\ dfs[k].rows[i]["first_name"] = RawOf(k, i)["First Name"]
            /\ dfs[k].rows[i]["last_name"] = RawOf(k, i)["Last Name"]

FlagColumns == <<"Infant", "Toddler", "Preschool", "School">>

\* the names, joined by ", "
RECURSIVE JoinLabels(_)
JoinLabels(names) ==
    IF names = <<>> THEN <<>>
    ELSE IF Len(names) = 1 THEN <<names[1]>>
    ELSE <<names[1], ",", " ">> \o JoinLabels(Tail(names))

\* the flag columns of the raw row whose value is the sentinel 'Y', in order
SentinelColumns(raw) ==
    LET IsSet(c) == raw[c] = Some(<<"Y">>) IN SelectSeq(FlagColumns, IsSet)

\* C9: for source3, ages_served is the ", "-joined list of the names of the
\* flag columns whose value is 'Y', in list order (the empty string when none
\* is), and the flag columns are no longer columns of the record.
C9_FlagLabelsJoined ==
    (Len(dfs) >= 3 /\ ~IsNone(dfs[3])) =>
        /\ dfs[3].cols \cap Range(FlagColumns) = {}
        /\ \A i \in 1..Len(dfs[3].rows) :
              /\ dfs[3].rows[i]["ages_served"] = Some(JoinLabels(SentinelColumns(RawOf(3, i))))
              /\ FieldsOf(dfs[3].rows[i]) \cap Range(FlagColumns) = {}

C9_Witness ==
    /\ Len(dfs) >= 3
    /\ ~IsNone(dfs[3])
    /\ \E i \in 1..Len(dfs[3].rows) :
          /\ RawOf(3, i)["Infant"] = Some(<<"N">>)
          /\ IsNull(RawOf(3, i)["Toddler"])
          /\ dfs[3].rows[i]["ages_served"] = Some(<<"Preschool", ",", " ", "School">>)

\* the digits of the text read as an integer, null when there is none or the
\* number does not fit an integer
StripAndParse(x) ==
    IF IsNull(x) THEN NULL
    ELSE LET digits == SelectSeq(Val(x), IsDigit)
             value  == AccumulateNegative(digits, 0)
         IN  IF digits = <<>> \/ value = 1 \/ value = IntegerMin THEN NULL
             ELSE Some(-value)

\* C10: capacity and license_number are the raw text with every non-digit
\* removed, read as an integer; null when that fails.
C10_NumericStripParse ==
    \A k \in MappedFrames : \A i \in 1..Len(dfs[k].rows) :
        /\ dfs[k].rows[i]["capacity"] = StripAndParse(RawOf(k, i)["Capacity"])
        /\ dfs[k].rows[i]["license_number"] = StripAndParse(RawOf(k, i)["License Number"])
====
